---- MODULE Spec2Model ----
(***************************************************************************)
(* A model of BinaryHeap<T: PartialOrd> (src/src/lib.rs): a min-heap kept  *)
(* in one Vec<T>.  Index i of the Rust Vec is position i + 1 of the TLA+   *)
(* sequence.  Every public method is one action; the private repair        *)
(* routines flow_up and flow_down are recursive operators that follow the  *)
(* loops of the source step by step.                                       *)
(***************************************************************************)
EXTENDS Integers, Sequences, FiniteSets, Bags, TLC

VARIABLES
    vec,              \* BinaryHeap::vec, the backing store
    op,               \* the method that ran last
    outcome,          \* "ok" when it returned, "panic" when it panicked
    ret,              \* the value it returned (NoVal when it returns none)
    ref,              \* the reference priority queue of the fuzz test
    refRet,           \* the value the reference returned for the same call
    pushed,           \* bag of the values moved into the heap
    popped,           \* bag of the values pop has returned
    dropped,          \* bag of the values clear has dropped
    drained,          \* the values returned by the pops since the last other call
    input,            \* the Vec last handed to from_unsorted_vec
    overflow_checks,  \* build profile: TRUE = debug (overflow panics), FALSE = release (wraps)
    underflow,        \* whether len - 2 wrapped below zero in the last from_unsorted_vec
    repairs,          \* number of flow_down calls made by the last from_unsorted_vec
    partial,          \* element type: TRUE = only partially ordered, FALSE = totally ordered
    pc,               \* the loop a call is in: "idle", "flow_up", "flow_down" or "heapify"
    pos,              \* the loop variable idx of that loop
    fault,            \* the internal check that failed, "none" when none did
    rec_vec           \* the backing store flow_down_rec leaves

vars == <<vec, op, outcome, ret, ref, refRet, pushed, popped, dropped,
          drained, input, overflow_checks, underflow, repairs,
          partial, pc, pos, fault, rec_vec>>

\* the variables only the loop-level and function-level specifications change
loopvars == <<partial, pc, pos, fault, rec_vec>>

----------------------------------------------------------------------------
(* Bounds of the model *)

MaxVal == 2
MaxPush == 5
MaxInput == 6
UsizeBits == 4

Values == 0..MaxVal
NoVal == 0 - 1

RECURSIVE Pow2(_)
Pow2(n) == IF n = 0 THEN 1 ELSE 2 * Pow2(n - 1)

\* usize arithmetic, at the model's width
UsizeMod == Pow2(UsizeBits)
WrapSub(a, b) == (a - b) % UsizeMod
WrapAdd(a, b) == (a + b) % UsizeMod
Shl1(a) == (2 * a) % UsizeMod
Shr1(a) == a \div 2

----------------------------------------------------------------------------
(* Vec<T> primitives *)

At(v, i) == v[i + 1]

SwapDup(v, i, j) == [v EXCEPT ![i + 1] = v[j + 1]]

Swap(v, i, j) == [v EXCEPT ![i + 1] = v[j + 1], ![j + 1] = v[i + 1]]

VecPop(v) == SubSeq(v, 1, Len(v) - 1)

\* `<` of a partially ordered T: a value is the pair <<a % 2, a \div 2>>,
\* ordered componentwise, so that 1 and 2 are incomparable
PartialLt(a, b) == a # b /\ a % 2 <= b % 2 /\ a \div 2 <= b \div 2

\* `<` of T: PartialOrd: the total order of u64, or the partial order above
Lt(a, b) == IF partial THEN PartialLt(a, b) ELSE a < b

----------------------------------------------------------------------------
(* Index arithmetic and the repair routines *)

parent_idx(you) == Shr1(WrapSub(you, 1))

child_idxs(you) == <<WrapAdd(Shl1(you), 1), WrapAdd(Shl1(you), 2)>>

higher_in_tree(v, you, they) == Lt(At(v, you), At(v, they))

flow_up_once(v, idx) ==
    IF idx = 0 THEN v
    ELSE LET p == parent_idx(idx) IN
         IF higher_in_tree(v, idx, p) THEN Swap(v, p, idx) ELSE v

RECURSIVE flow_up(_, _)
flow_up(v, idx) ==
    IF idx = 0 THEN v
    ELSE LET p == parent_idx(idx) IN
         IF higher_in_tree(v, idx, p)
         THEN flow_up(Swap(v, p, idx), p)
         ELSE v

flow_down_once(v, idx) ==
    LET child1_idx == child_idxs(idx)[1]
        child2_idx == child_idxs(idx)[2]
    IN
    IF child1_idx >= Len(v) THEN v
    ELSE LET highest_child_idx ==
                 IF child2_idx >= Len(v) \/ higher_in_tree(v, child1_idx, child2_idx)
                 THEN child1_idx
                 ELSE child2_idx
         IN
         IF higher_in_tree(v, idx, highest_child_idx) THEN v
         ELSE Swap(v, idx, highest_child_idx)

RECURSIVE flow_down_left(_, _)
flow_down_left(v, idx) ==
    LET child1_idx == child_idxs(idx)[1] IN
    IF child1_idx >= Len(v) THEN v
    ELSE IF higher_in_tree(v, idx, child1_idx) THEN v
         ELSE flow_down_left(Swap(v, idx, child1_idx), child1_idx)

RECURSIVE flow_down(_, _)
flow_down(v, idx) ==
    LET child1_idx == child_idxs(idx)[1]
        child2_idx == child_idxs(idx)[2]
    IN
    IF child1_idx >= Len(v) THEN v
    ELSE LET highest_child_idx ==
                 IF child2_idx >= Len(v) \/ higher_in_tree(v, child1_idx, child2_idx)
                 THEN child1_idx
                 ELSE child2_idx
         IN
         IF higher_in_tree(v, idx, highest_child_idx) THEN v
         ELSE flow_down(Swap(v, idx, highest_child_idx), highest_child_idx)

\* `>` of T: PartialOrd
Gt(a, b) == Lt(b, a)

\* the recursive variant, which takes the length as a parameter
RECURSIVE flow_down_rec(_, _, _)
flow_down_rec(v, idx, vec_len) ==
    LET left_child_idx == WrapAdd(Shl1(idx), 1)
        right_child_idx == WrapAdd(left_child_idx, 1)
    IN
    IF left_child_idx >= vec_len THEN v
    ELSE LET child_idx ==
                 IF right_child_idx >= vec_len THEN left_child_idx
                 ELSE IF Lt(At(v, left_child_idx), At(v, right_child_idx))
                      THEN left_child_idx
                      ELSE right_child_idx
         IN
         IF Gt(At(v, idx), At(v, child_idx)) THEN v
         ELSE flow_down_rec(Swap(v, idx, child_idx), child_idx, vec_len)

----------------------------------------------------------------------------
(* One iteration of each repair loop, with the checks the build inserts:    *)
(* the debug assertion of parent_idx, the overflow check of usize           *)
(* arithmetic, and the bounds check of every Vec access.                    *)

InBounds(v, i) == i < Len(v)

Stay(v, i) == [vec |-> v, idx |-> i, done |-> TRUE, fault |-> "none"]

Failed(v, i, f) == [vec |-> v, idx |-> i, done |-> TRUE, fault |-> f]

Moved(v, i) == [vec |-> v, idx |-> i, done |-> FALSE, fault |-> "none"]

\* debug_assert!(you != 0) and (you - 1)
parent_idx_check(you, debug) ==
    IF you # 0 THEN "none"
    ELSE IF debug THEN "debug_assert" ELSE "underflow"

\* (you << 1) + 1 and (you << 1) + 2
child_idxs_check(you) ==
    IF Shl1(you) + 2 >= UsizeMod THEN "overflow" ELSE "none"

flow_up_step_noguard(v, idx, debug) ==
    LET parent == parent_idx(idx) IN
    IF parent_idx_check(idx, debug) # "none"
    THEN Failed(v, idx, parent_idx_check(idx, debug))
    ELSE IF ~(InBounds(v, idx) /\ InBounds(v, parent))
    THEN Failed(v, idx, "bounds")
    ELSE IF higher_in_tree(v, idx, parent)
         THEN Moved(Swap(v, parent, idx), parent)
         ELSE Stay(v, idx)

flow_up_step_le(v, idx, debug) ==
    IF idx = 0 THEN Stay(v, idx)
    ELSE LET parent == parent_idx(idx) IN
         IF parent_idx_check(idx, debug) # "none"
         THEN Failed(v, idx, parent_idx_check(idx, debug))
         ELSE IF ~(InBounds(v, idx) /\ InBounds(v, parent))
         THEN Failed(v, idx, "bounds")
         ELSE IF ~higher_in_tree(v, parent, idx)
              THEN Moved(Swap(v, parent, idx), parent)
              ELSE Stay(v, idx)

flow_up_step(v, idx, debug) ==
    IF idx = 0 THEN Stay(v, idx)
    ELSE LET parent == parent_idx(idx) IN
         IF parent_idx_check(idx, debug) # "none"
         THEN Failed(v, idx, parent_idx_check(idx, debug))
         ELSE IF ~(InBounds(v, idx) /\ InBounds(v, parent))
         THEN Failed(v, idx, "bounds")
         ELSE IF higher_in_tree(v, idx, parent)
              THEN Moved(Swap(v, parent, idx), parent)
              ELSE Stay(v, idx)

\* the rest of an iteration of flow_down once the child is selected
flow_down_compare(v, idx, highest_child_idx) ==
    IF ~(InBounds(v, idx) /\ InBounds(v, highest_child_idx))
    THEN Failed(v, idx, "bounds")
    ELSE IF higher_in_tree(v, idx, highest_child_idx)
         THEN Stay(v, idx)
         ELSE Moved(Swap(v, idx, highest_child_idx), highest_child_idx)

flow_down_step_left(v, idx) ==
    LET child1_idx == child_idxs(idx)[1] IN
    IF child_idxs_check(idx) # "none" THEN Failed(v, idx, child_idxs_check(idx))
    ELSE IF child1_idx >= Len(v) THEN Stay(v, idx)
    ELSE flow_down_compare(v, idx, child1_idx)

flow_down_step_stay(v, idx) ==
    LET child1_idx == child_idxs(idx)[1]
        child2_idx == child_idxs(idx)[2]
    IN
    IF child_idxs_check(idx) # "none" THEN Failed(v, idx, child_idxs_check(idx))
    ELSE IF child1_idx >= Len(v) THEN Stay(v, idx)
    ELSE LET highest_child_idx ==
                 IF child2_idx >= Len(v) \/ higher_in_tree(v, child1_idx, child2_idx)
                 THEN child1_idx
                 ELSE child2_idx
             r == flow_down_compare(v, idx, highest_child_idx)
         IN [r EXCEPT !.idx = idx]

flow_down_step_late(v, idx) ==
    LET child1_idx == child_idxs(idx)[1]
        child2_idx == child_idxs(idx)[2]
    IN
    IF child_idxs_check(idx) # "none" THEN Failed(v, idx, child_idxs_check(idx))
    ELSE IF child1_idx > Len(v) THEN Stay(v, idx)
    ELSE IF child2_idx >= Len(v)
    THEN flow_down_compare(v, idx, child1_idx)
    ELSE IF higher_in_tree(v, child1_idx, child2_idx)
         THEN flow_down_compare(v, idx, child1_idx)
         ELSE flow_down_compare(v, idx, child2_idx)

flow_down_step(v, idx) ==
    LET child1_idx == child_idxs(idx)[1]
        child2_idx == child_idxs(idx)[2]
    IN
    IF child_idxs_check(idx) # "none" THEN Failed(v, idx, child_idxs_check(idx))
    ELSE IF child1_idx >= Len(v) THEN Stay(v, idx)
    ELSE IF child2_idx >= Len(v)
    THEN flow_down_compare(v, idx, child1_idx)
    ELSE IF higher_in_tree(v, child1_idx, child2_idx)
         THEN flow_down_compare(v, idx, child1_idx)
         ELSE flow_down_compare(v, idx, child2_idx)

----------------------------------------------------------------------------
(* The public methods, as functions of the backing store *)

new == <<>>

len(v) == Len(v)

is_empty(v) == Len(v) = 0

clear_keep_root(v) == IF Len(v) > 1 THEN SubSeq(v, 1, 1) ELSE <<>>

clear(v) == <<>>

push_dedup(v, val) ==
    IF Len(v) > 0 /\ At(v, 0) = val THEN v ELSE flow_up(Append(v, val), Len(v))

push(v, val) ==
    LET idx == Len(v) IN flow_up(Append(v, val), idx)

pop_sentinel(v) ==
    IF Len(v) = 0
    THEN [outcome |-> "ok", vec |-> v, ret |-> NoVal]
    ELSE LET end == WrapSub(Len(v), 1)
             swapped == Swap(v, 0, end)
         IN [outcome |-> "ok",
             vec |-> flow_down(VecPop(swapped), 0),
             ret |-> At(swapped, end)]

pop(v) ==
    IF Len(v) = 0
    THEN [outcome |-> "panic", vec |-> v, ret |-> NoVal]
    ELSE LET end == WrapSub(Len(v), 1)
             swapped == Swap(v, 0, end)
         IN [outcome |-> "ok",
             vec |-> flow_down(VecPop(swapped), 0),
             ret |-> At(swapped, end)]

peek_last(v) ==
    IF Len(v) = 0
    THEN [outcome |-> "panic", ret |-> NoVal]
    ELSE [outcome |-> "ok", ret |-> At(v, Len(v) - 1)]

peek(v) ==
    IF Len(v) = 0
    THEN [outcome |-> "panic", ret |-> NoVal]
    ELSE [outcome |-> "ok", ret |-> At(v, 0)]

heapify_start_off(length) == Shr1(WrapSub(length, 1))

\* let last_node_with_child = (len - 2) >> 1
heapify_start(length) == Shr1(WrapSub(length, 2))

RECURSIVE heapify_forward(_, _)
heapify_forward(v, idx) ==
    IF idx = 0 THEN flow_down(v, 0)
    ELSE flow_down(heapify_forward(v, idx - 1), idx)

\* for idx in (0..=last).rev() { this.flow_down(idx) }
RECURSIVE heapify_from(_, _)
heapify_from(v, idx) ==
    LET w == flow_down(v, idx) IN
    IF idx = 0 THEN w ELSE heapify_from(w, idx - 1)

from_unsorted_vec(S, checks) ==
    LET length == Len(S) IN
    IF length < 2 /\ checks
    THEN \* len - 2 overflows: "attempt to subtract with overflow"
         [outcome |-> "panic", vec |-> S, underflow |-> TRUE, repairs |-> 0]
    ELSE LET last_node_with_child == Shr1(WrapSub(length, 2)) IN
         [outcome |-> "ok",
          vec |-> heapify_from(S, last_node_with_child),
          underflow |-> length < 2,
          repairs |-> last_node_with_child + 1]

----------------------------------------------------------------------------
(* The reference priority queue of the fuzz test: a sorted sequence *)

RECURSIVE RefPush(_, _)
RefPush(q, x) ==
    IF q = <<>> THEN <<x>>
    ELSE IF x <= Head(q) THEN <<x>> \o q
         ELSE <<Head(q)>> \o RefPush(Tail(q), x)

RefPeek(q) == IF q = <<>> THEN NoVal ELSE Head(q)

RefPop(q) == IF q = <<>> THEN q ELSE Tail(q)

RECURSIVE SortAsc(_)
SortAsc(s) == IF s = <<>> THEN <<>> ELSE RefPush(SortAsc(Tail(s)), Head(s))

RECURSIVE BagOfSeq(_)
BagOfSeq(s) ==
    IF s = <<>> THEN EmptyBag ELSE BagOfSeq(Tail(s)) (+) SetToBag({Head(s)})

----------------------------------------------------------------------------
(* The state machine *)

Init ==
    /\ vec = new
    /\ op = "new"
    /\ outcome = "ok"
    /\ ret = NoVal
    /\ ref = <<>>
    /\ refRet = NoVal
    /\ pushed = EmptyBag
    /\ popped = EmptyBag
    /\ dropped = EmptyBag
    /\ drained = <<>>
    /\ input = <<>>
    /\ overflow_checks \in BOOLEAN
    /\ underflow = FALSE
    /\ repairs = 0
    /\ partial = FALSE
    /\ pc = "idle"
    /\ pos = 0
    /\ fault = "none"
    /\ rec_vec = <<>>

Push(val) ==
    /\ BagCardinality(pushed) < MaxPush
    /\ vec' = push(vec, val)
    /\ op' = "push"
    /\ outcome' = "ok"
    /\ ret' = NoVal
    /\ ref' = RefPush(ref, val)
    /\ refRet' = NoVal
    /\ pushed' = pushed (+) SetToBag({val})
    /\ drained' = <<>>
    /\ UNCHANGED <<popped, dropped, input, overflow_checks, underflow, repairs>>
    /\ UNCHANGED loopvars

Pop ==
    LET r == pop(vec) IN
    /\ vec' = r.vec
    /\ op' = "pop"
    /\ outcome' = r.outcome
    /\ ret' = r.ret
    /\ ref' = RefPop(ref)
    /\ refRet' = RefPeek(ref)
    /\ popped' = IF r.outcome = "ok" THEN popped (+) SetToBag({r.ret}) ELSE popped
    /\ drained' = IF r.outcome = "ok" THEN Append(drained, r.ret) ELSE drained
    /\ UNCHANGED <<pushed, dropped, input, overflow_checks, underflow, repairs>>
    /\ UNCHANGED loopvars

Peek ==
    LET r == peek(vec) IN
    /\ op' = "peek"
    /\ outcome' = r.outcome
    /\ ret' = r.ret
    /\ refRet' = RefPeek(ref)
    /\ UNCHANGED <<vec, ref, pushed, popped, dropped, drained, input,
                   overflow_checks, underflow, repairs>>
    /\ UNCHANGED loopvars

Clear ==
    /\ vec' = clear(vec)
    /\ op' = "clear"
    /\ outcome' = "ok"
    /\ ret' = NoVal
    /\ ref' = <<>>
    /\ refRet' = NoVal
    /\ dropped' = dropped (+) BagOfSeq(vec)
    /\ drained' = <<>>
    /\ UNCHANGED <<pushed, popped, input, overflow_checks, underflow, repairs>>
    /\ UNCHANGED loopvars

Inputs == UNION {[1..n -> Values] : n \in 0..MaxInput}

FromUnsortedVec(S) ==
    LET r == from_unsorted_vec(S, overflow_checks) IN
    /\ op' = "from_unsorted_vec"
    /\ outcome' = r.outcome
    /\ ret' = NoVal
    /\ refRet' = NoVal
    /\ input' = S
    /\ underflow' = r.underflow
    /\ repairs' = r.repairs
    /\ drained' = <<>>
    /\ IF r.outcome = "ok"
       THEN /\ vec' = r.vec
            /\ ref' = SortAsc(S)
            /\ pushed' = BagOfSeq(S)
            /\ popped' = EmptyBag
            /\ dropped' = EmptyBag
       ELSE UNCHANGED <<vec, ref, pushed, popped, dropped>>
    /\ UNCHANGED overflow_checks
    /\ UNCHANGED loopvars

Next ==
    \/ \E val \in Values : Push(val)
    \/ Pop
    \/ Peek
    \/ Clear

Spec == Init /\ [][Next]_vars

\* the constructor runs once, on the caller's input, before any other call
NextHeapify ==
    \/ op = "new" /\ \E S \in Inputs : FromUnsortedVec(S)
    \/ Pop

SpecHeapify == Init /\ [][NextHeapify]_vars

----------------------------------------------------------------------------
(* push and pop one loop iteration at a time *)

\* push up to the call of flow_up
PushBegin(val) ==
    /\ pc = "idle"
    /\ BagCardinality(pushed) < MaxPush
    /\ vec' = Append(vec, val)
    /\ pos' = Len(vec)
    /\ pc' = "flow_up"
    /\ op' = "push"
    /\ outcome' = "ok"
    /\ ret' = NoVal
    /\ ref' = RefPush(ref, val)
    /\ refRet' = NoVal
    /\ pushed' = pushed (+) SetToBag({val})
    /\ drained' = <<>>
    /\ UNCHANGED <<popped, dropped, input, overflow_checks, underflow, repairs,
                   partial, fault, rec_vec>>

FlowUpIter ==
    LET r == flow_up_step(vec, pos, overflow_checks) IN
    /\ pc = "flow_up"
    /\ vec' = r.vec
    /\ pos' = r.idx
    /\ pc' = IF r.done THEN "idle" ELSE "flow_up"
    /\ fault' = r.fault
    /\ outcome' = IF r.fault = "none" THEN outcome ELSE "panic"
    /\ UNCHANGED <<op, ret, ref, refRet, pushed, popped, dropped, drained, input,
                   overflow_checks, underflow, repairs, partial, rec_vec>>

\* pop up to the call of flow_down
PopBegin ==
    /\ pc = "idle"
    /\ op' = "pop"
    /\ ref' = RefPop(ref)
    /\ refRet' = RefPeek(ref)
    /\ IF Len(vec) = 0
       THEN /\ outcome' = "panic"
            /\ ret' = NoVal
            /\ UNCHANGED <<vec, pos, pc, popped, drained>>
       ELSE LET end == WrapSub(Len(vec), 1)
                swapped == Swap(vec, 0, end)
            IN /\ outcome' = "ok"
               /\ ret' = At(swapped, end)
               /\ vec' = VecPop(swapped)
               /\ pos' = 0
               /\ pc' = "flow_down"
               /\ popped' = popped (+) SetToBag({At(swapped, end)})
               /\ drained' = Append(drained, At(swapped, end))
    /\ UNCHANGED <<pushed, dropped, input, overflow_checks, underflow, repairs,
                   partial, fault, rec_vec>>

FlowDownIter ==
    LET r == flow_down_step(vec, pos) IN
    /\ pc = "flow_down"
    /\ vec' = r.vec
    /\ pos' = r.idx
    /\ pc' = IF r.done THEN "idle" ELSE "flow_down"
    /\ fault' = r.fault
    /\ outcome' = IF r.fault = "none" THEN outcome ELSE "panic"
    /\ UNCHANGED <<op, ret, ref, refRet, pushed, popped, dropped, drained, input,
                   overflow_checks, underflow, repairs, partial, rec_vec>>

NextSteps ==
    \/ \E val \in Values : PushBegin(val)
    \/ FlowUpIter
    \/ PopBegin
    \/ FlowDownIter
    \/ pc = "idle" /\ Peek
    \/ pc = "idle" /\ Clear

\* a loop that has been entered runs its next iteration
SpecSteps ==
    Init /\ [][NextSteps]_vars /\ WF_vars(FlowUpIter) /\ WF_vars(FlowDownIter)

----------------------------------------------------------------------------
(* from_unsorted_vec one iteration of its for loop at a time *)

\* from_unsorted_vec up to the for loop
HeapifyBegin(S) ==
    /\ pc = "idle"
    /\ op' = "from_unsorted_vec"
    /\ ret' = NoVal
    /\ refRet' = NoVal
    /\ input' = S
    /\ drained' = <<>>
    /\ repairs' = 0
    /\ underflow' = (Len(S) < 2)
    /\ IF Len(S) < 2 /\ overflow_checks
       THEN /\ outcome' = "panic"
            /\ fault' = "underflow"
            /\ UNCHANGED <<vec, ref, pushed, popped, dropped, pc, pos>>
       ELSE /\ outcome' = "ok"
            /\ vec' = S
            /\ pos' = heapify_start(Len(S))
            /\ pc' = "heapify"
            /\ ref' = SortAsc(S)
            /\ pushed' = BagOfSeq(S)
            /\ popped' = EmptyBag
            /\ dropped' = EmptyBag
            /\ UNCHANGED fault
    /\ UNCHANGED <<overflow_checks, partial, rec_vec>>

\* this.flow_down(idx) for the next idx of (0..=last_node_with_child).rev()
HeapifyIter ==
    /\ pc = "heapify"
    /\ vec' = flow_down(vec, pos)
    /\ repairs' = repairs + 1
    /\ IF pos = 0
       THEN pc' = "idle" /\ pos' = pos
       ELSE pc' = "heapify" /\ pos' = pos - 1
    /\ UNCHANGED <<op, outcome, ret, ref, refRet, pushed, popped, dropped, drained,
                   input, overflow_checks, underflow, partial, fault, rec_vec>>

NextHeapifyLoop ==
    \/ op = "new" /\ \E S \in Inputs : HeapifyBegin(S)
    \/ HeapifyIter

SpecHeapifyLoop == Init /\ [][NextHeapifyLoop]_vars

\* the two sift-down variants, each applied to the same array and index
InitSift ==
    /\ input \in Inputs
    /\ pos \in 0..MaxInput
    /\ vec = input
    /\ op = "new"
    /\ outcome = "ok"
    /\ ret = NoVal
    /\ ref = <<>>
    /\ refRet = NoVal
    /\ pushed = EmptyBag
    /\ popped = EmptyBag
    /\ dropped = EmptyBag
    /\ drained = <<>>
    /\ overflow_checks \in BOOLEAN
    /\ underflow = FALSE
    /\ repairs = 0
    /\ partial = FALSE
    /\ pc = "idle"
    /\ fault = "none"
    /\ rec_vec = input

FlowDownCall ==
    /\ op = "new"
    /\ vec' = flow_down(input, pos)
    /\ op' = "flow_down"
    /\ UNCHANGED <<outcome, ret, ref, refRet, pushed, popped, dropped, drained,
                   input, overflow_checks, underflow, repairs, loopvars>>

FlowDownRecCall ==
    /\ op = "flow_down"
    /\ rec_vec' = flow_down_rec(input, pos, Len(input))
    /\ op' = "flow_down_rec"
    /\ UNCHANGED <<vec, outcome, ret, ref, refRet, pushed, popped, dropped,
                   drained, input, overflow_checks, underflow, repairs,
                   partial, pc, pos, fault>>

NextSift ==
    \/ FlowDownCall
    \/ FlowDownRecCall

SpecSift == InitSift /\ [][NextSift]_vars

\* the same calls on a heap of partially ordered elements
InitPartial ==
    /\ vec = new
    /\ op = "new"
    /\ outcome = "ok"
    /\ ret = NoVal
    /\ ref = <<>>
    /\ refRet = NoVal
    /\ pushed = EmptyBag
    /\ popped = EmptyBag
    /\ dropped = EmptyBag
    /\ drained = <<>>
    /\ input = <<>>
    /\ overflow_checks \in BOOLEAN
    /\ underflow = FALSE
    /\ repairs = 0
    /\ partial = TRUE
    /\ pc = "idle"
    /\ pos = 0
    /\ fault = "none"
    /\ rec_vec = <<>>

SpecPartial == InitPartial /\ [][Next]_vars

----------------------------------------------------------------------------
(* Properties *)

\* element[parent(i)] <= element[i] for every non-root index i
HeapOrder(v) ==
    \A i \in 1..(Len(v) - 1) : At(v, (i - 1) \div 2) <= At(v, i)

NonDecreasing(s) ==
    \A i \in 1..(Len(s) - 1) : s[i] <= s[i + 1]

\* C1: after any sequence of push, pop and clear from new(), every non-root
\* index i of the backing array has element[(i-1)/2] <= element[i].
C1_HeapOrder == HeapOrder(vec)

C1_Witness ==
    /\ op = "pop"
    /\ outcome = "ok"
    /\ dropped # EmptyBag
    /\ Len(vec) >= 3
    /\ At(vec, 0) < At(vec, Len(vec) - 1)

\* C2: every value pop or peek returns is the value the reference
\* min-priority queue returns for the same call, and len() equals the
\* reference's length in every state.
C2_ReferenceEquivalence ==
    /\ len(vec) = Len(ref)
    /\ (op \in {"pop", "peek"} /\ outcome = "ok") => ret = refRet

C2_Witness ==
    /\ op = "pop"
    /\ outcome = "ok"
    /\ ret > 0
    /\ ret = refRet
    /\ Len(vec) >= 3
    /\ \E i \in 1..Len(vec) : vec[i] > ret

\* C3: the values returned by consecutive pops (no push in between) are in
\* non-decreasing order, duplicates included.
C3_SortedExtraction == NonDecreasing(drained)

C3_Witness ==
    /\ op = "pop"
    /\ is_empty(vec)
    /\ dropped = EmptyBag
    /\ Len(drained) >= 4
    /\ Len(drained) = BagCardinality(pushed)
    /\ drained[1] < drained[Len(drained)]
    /\ \E i \in 1..(Len(drained) - 1) : drained[i] = drained[i + 1]

\* C4: for an input S of at least two elements, from_unsorted_vec(S) returns
\* normally with a backing array that is a permutation of S in heap order,
\* and popping it until empty yields S sorted ascending.
C4_HeapifyCorrect ==
    /\ (op = "from_unsorted_vec" /\ Len(input) >= 2) =>
           /\ outcome = "ok"
           /\ BagOfSeq(vec) = BagOfSeq(input)
           /\ HeapOrder(vec)
    /\ (op = "pop" /\ Len(input) >= 2) =>
           /\ NonDecreasing(drained)
           /\ BagOfSeq(drained) (+) BagOfSeq(vec) = BagOfSeq(input)
           /\ is_empty(vec) => drained = SortAsc(input)

C4_Witness ==
    /\ op = "pop"
    /\ is_empty(vec)
    /\ Len(input) >= 5
    /\ ~HeapOrder(input)
    /\ input[1] > input[Len(input)]
    /\ drained = SortAsc(input)

\* C5: for an input of length 0 or 1, from_unsorted_vec computes its loop
\* bound without underflow, runs no repair step and returns normally with a
\* valid heap holding exactly the input.
C5_ShortInputNoUnderflow ==
    (op = "from_unsorted_vec" /\ Len(input) <= 1) =>
        /\ outcome = "ok"
        /\ ~underflow
        /\ repairs = 0
        /\ vec = input
        /\ HeapOrder(vec)

\* C6: pop and peek panic exactly when the heap is empty; the panicking call
\* returns no value and leaves the heap empty.
C6_EmptyHeapPanics ==
    [][op' \in {"pop", "peek"} =>
          /\ (outcome' = "panic") <=> is_empty(vec)
          /\ (outcome' = "panic") => (vec' = vec /\ is_empty(vec') /\ ret' = NoVal)
          /\ (outcome' = "ok") => ret' \in Values]_vars

C6_Witness ==
    /\ op = "pop"
    /\ outcome = "panic"
    /\ is_empty(vec)
    /\ ret = NoVal
    /\ popped # EmptyBag
    /\ popped = pushed

\* C7: len() is the number of pushes minus the number of successful pops
\* (minus the elements dropped by clear), is_empty() holds exactly when
\* len() is 0, each push raises len() by 1 and each pop lowers it by 1.
C7_SizeAccounting ==
    /\ [](/\ len(vec) = BagCardinality(pushed) - BagCardinality(popped)
                          - BagCardinality(dropped)
          /\ is_empty(vec) <=> (len(vec) = 0))
    /\ [][/\ op' = "push" => len(vec') = len(vec) + 1
          /\ (op' = "pop" /\ outcome' = "ok") => len(vec') = len(vec) - 1]_vars

C7_Witness ==
    /\ op = "pop"
    /\ outcome = "ok"
    /\ dropped = EmptyBag
    /\ BagCardinality(pushed) = MaxPush
    /\ BagCardinality(popped) = 2
    /\ len(vec) = MaxPush - 2

\* C8: peek leaves the backing array unchanged, and the call right after a
\* successful peek, be it pop or peek, returns the value that peek returned.
C8_PeekPopAgree ==
    [][/\ op' = "peek" => vec' = vec
       /\ (op = "peek" /\ outcome = "ok" /\ op' \in {"pop", "peek"}) =>
              (outcome' = "ok" /\ ret' = ret)]_vars

C8_Witness ==
    /\ op = "peek"
    /\ outcome = "ok"
    /\ popped # EmptyBag
    /\ Len(vec) >= 3
    /\ ret = At(vec, 0)
    /\ ret < At(vec, Len(vec) - 1)

\* C9: the elements stored, together with those pop returned and those clear
\* dropped, are exactly the elements pushed, as multisets; a heap drained by
\* pops alone has returned every pushed occurrence.
C9_MultisetPreserved ==
    /\ BagOfSeq(vec) (+) popped (+) dropped = pushed
    /\ (is_empty(vec) /\ dropped = EmptyBag) => popped = pushed

C9_Witness ==
    /\ op = "pop"
    /\ is_empty(vec)
    /\ Len(drained) >= 3
    /\ drained[1] = drained[Len(drained)]
    /\ BagOfSeq(drained) = pushed

\* C10: after clear the heap is in the state new() constructs (empty backing
\* array, len() = 0, is_empty()), and every later pop and peek returns what a
\* reference queue started empty at the clear returns.
C10_ClearIsNew ==
    /\ op = "clear" => (vec = new /\ len(vec) = 0 /\ is_empty(vec))
    /\ (dropped # EmptyBag /\ op \in {"pop", "peek"}) =>
           /\ (outcome = "ok") <=> (refRet # NoVal)
           /\ ret = refRet

C10_Witness ==
    /\ op = "pop"
    /\ outcome = "ok"
    /\ BagCardinality(dropped) >= 2
    /\ ret = refRet
    /\ Len(vec) >= 1

C12_SiftDownVariantsAgree ==
    op = "flow_down_rec" => rec_vec = vec

\* the indices and values an iteration of flow_down at index i of v looks at
Child1(i) == 2 * i + 1

Child2(i) == 2 * i + 2

HasChild(v, i) == Child1(i) < Len(v)

MinChildValue(v, i) ==
    IF Child2(i) >= Len(v) \/ At(v, Child1(i)) <= At(v, Child2(i))
    THEN At(v, Child1(i))
    ELSE At(v, Child2(i))

Sibling(i) == IF i % 2 = 1 THEN i + 1 ELSE i - 1

\* C11: at every step of flow_down where the current element is <= the
\* selected (smaller) child, equality included, the routine stops without
\* an exchange; it exchanges only when the current element is strictly
\* greater.
C11_StopsWhenNotGreater ==
    [][(pc = "flow_down" /\ HasChild(vec, pos)) =>
          /\ (At(vec, pos) <= MinChildValue(vec, pos)) =>
                 (pc' = "idle" /\ vec' = vec)
          /\ (pc' = "flow_down") => (At(vec, pos) > MinChildValue(vec, pos))]_vars

\* C13: an exchange of flow_down at a node with two children is with a child
\* that is <= its sibling; at a node with only a left child the left child
\* is the one compared and, unless the current element is less, exchanged.
C13_ExchangesWithMinChild ==
    [][(pc = "flow_down" /\ HasChild(vec, pos)) =>
          /\ (pc' = "flow_down") =>
                 /\ pos' \in {Child1(pos), Child2(pos)}
                 /\ pos' < Len(vec)
                 /\ vec' = Swap(vec, pos, pos')
                 /\ (Child2(pos) < Len(vec)) =>
                        At(vec, pos') <= At(vec, Sibling(pos'))
          /\ (Child2(pos) >= Len(vec)) =>
                 /\ (pc' = "idle") <=> (At(vec, pos) < At(vec, Child1(pos)))
                 /\ (pc' = "flow_down") => pos' = Child1(pos)]_vars

C13_Witness ==
    /\ pc = "flow_down"
    /\ pos = 2
    /\ Len(vec) >= 3
    /\ At(vec, 0) < At(vec, 1)

\* C16: every push and pop terminates: the index of flow_up strictly
\* decreases, the index of flow_down strictly increases, and each loop that
\* was entered returns, arrays of all-equal elements included.
C16_SiftLoopsTerminate ==
    /\ (pc # "idle") ~> (pc = "idle")
    /\ [][/\ (pc = "flow_up" /\ pc' = "flow_up") => pos' < pos
          /\ (pc = "flow_down" /\ pc' = "flow_down") => pos' > pos]_vars

C16_Witness ==
    /\ op = "pop"
    /\ pc = "flow_down"
    /\ pos >= 2
    /\ Len(vec) >= 4
    /\ \A i \in 1..Len(vec) : vec[i] = vec[1]

\* C18: in new, push, pop and peek on a non-empty heap and clear no internal
\* check fails: no debug assertion, no index out of bounds, no underflow;
\* the index of each loop stays inside the array it reads.
C18_NoInternalCheckFails ==
    /\ fault = "none"
    /\ (outcome = "panic") => (op \in {"pop", "peek"} /\ is_empty(vec))
    /\ (pc = "flow_up") => pos < Len(vec)
    /\ (pc = "flow_down" /\ HasChild(vec, pos)) => pos < Len(vec)

C18_Witness ==
    /\ op = "push"
    /\ pc = "flow_up"
    /\ pos = 0
    /\ Len(vec) >= 4
    /\ popped # EmptyBag
    /\ fault = "none"

\* C19: flow_down on an index without children, an index outside the array
\* included, returns at once and leaves the backing array unchanged.
C19_NoChildrenNoChange ==
    [][(pc = "flow_down" /\ ~HasChild(vec, pos)) =>
          /\ pc' = "idle"
          /\ vec' = vec
          /\ fault' = "none"
          /\ outcome' = outcome]_vars

C19_Witness ==
    /\ op = "pop"
    /\ outcome = "ok"
    /\ pc = "flow_down"
    /\ pos = 0
    /\ vec = <<>>
    /\ ~InBounds(vec, pos)

\* the j-th index on the path from index n to the root, and the path's length
RECURSIVE Anc(_, _)
Anc(n, j) == IF j = 0 THEN n ELSE (Anc(n, j - 1) - 1) \div 2

RECURSIVE Depth(_)
Depth(n) == IF n = 0 THEN 0 ELSE 1 + Depth((n - 1) \div 2)

\* C15: push(val) on a heap of length n appends val at index n and then
\* changes only positions on the path from n to the root: val is exchanged
\* with its parent exactly while it is strictly less than that parent (an
\* equal parent stops it), the exchanged parent moves one level down, and
\* every other position keeps its element.
C15_PushChangesOnlyPath ==
    /\ [](pc = "flow_up" =>
              \E j \in 0..Depth(Len(vec) - 1) : pos = Anc(Len(vec) - 1, j))
    /\ [][/\ (pc = "idle" /\ pc' = "flow_up") =>
                 /\ pos' = Len(vec)
                 /\ Len(vec') = Len(vec) + 1
                 /\ SubSeq(vec', 1, Len(vec)) = vec
                 /\ pushed' = pushed (+) SetToBag({At(vec', Len(vec))})
          /\ (pc = "flow_up" /\ pos = 0) => (pc' = "idle" /\ vec' = vec)
          /\ (pc = "flow_up" /\ pos > 0) =>
                 LET p == (pos - 1) \div 2 IN
                 IF At(vec, pos) < At(vec, p)
                 THEN /\ pc' = "flow_up"
                      /\ pos' = p
                      /\ vec' = [vec EXCEPT ![p + 1] = vec[pos + 1],
                                            ![pos + 1] = vec[p + 1]]
                 ELSE /\ pc' = "idle"
                      /\ vec' = vec]_vars

C15_Witness ==
    /\ op = "push"
    /\ pc = "flow_up"
    /\ pos = 1
    /\ Len(vec) = 5
    /\ At(vec, 1) = At(vec, 0)
    /\ At(vec, 1) < At(vec, 4)
    /\ At(vec, 1) < At(vec, 3)

\* index i lies strictly below index r in the tree
InSubtree(i, r) == \E j \in 1..Depth(i) : Anc(i, j) = r

\* the subtree rooted at index r is in heap order
SubtreeHeap(v, r) ==
    \A i \in (r + 1)..(Len(v) - 1) :
        InSubtree(i, r) => At(v, (i - 1) \div 2) <= At(v, i)

\* C14: for an input of length n >= 2, from_unsorted_vec calls flow_down on
\* (n-2)/2, the last index with a child, and then on each smaller index down
\* to 0; when it is called on idx every subtree rooted above idx is in heap
\* order, and after the call the subtree rooted at idx is too.
C14_HeapifyDescending ==
    /\ [](( pc = "heapify" /\ Len(input) >= 2) =>
              /\ pos <= (Len(input) - 2) \div 2
              /\ \A j \in (pos + 1)..(Len(vec) - 1) : SubtreeHeap(vec, j))
    /\ [][/\ (op = "new" /\ op' = "from_unsorted_vec" /\ Len(input') >= 2) =>
                 /\ pc' = "heapify"
                 /\ vec' = input'
                 /\ pos' = (Len(input') - 2) \div 2
                 /\ HasChild(vec', pos')
                 /\ \A i \in (pos' + 1)..(Len(vec') - 1) : ~HasChild(vec', i)
          /\ (pc = "heapify" /\ Len(input) >= 2) =>
                 /\ \A j \in pos..(Len(vec') - 1) : SubtreeHeap(vec', j)
                 /\ BagOfSeq(vec') = BagOfSeq(vec)
                 /\ IF pos > 0
                    THEN pc' = "heapify" /\ pos' = pos - 1
                    ELSE pc' = "idle" /\ HeapOrder(vec')]_vars

C14_Witness ==
    /\ op = "from_unsorted_vec"
    /\ pc = "heapify"
    /\ pos = 0
    /\ repairs >= 2
    /\ Len(input) >= 6
    /\ vec # input
    /\ ~HeapOrder(vec)

====
